---- MODULE Spec2Model ----
(***************************************************************************)
(* grib2csv: the section parser, the run-length decoder and the grid       *)
(* walker of src/src/lib.rs as a state machine.                            *)
(*                                                                         *)
(* Integer widths are scaled so that TLC reaches the overflow cases: the   *)
(* source's u8 codeword (BITS_PER_DATA = 8), u16, u32 and u64 are modelled  *)
(* with BITS_PER_DATA, U16Bits, U32Bits bits and U32 * U32 values.          *)
(* Arithmetic that overflows panics when the build checks overflow (debug  *)
(* profile) and wraps otherwise (release profile); the variable            *)
(* overflow_checks is the build's choice.                                  *)
(***************************************************************************)
EXTENDS Integers, Sequences, FiniteSets, TLC

VARIABLES
    overflow_checks, \* build profile: TRUE panics on overflow, FALSE wraps
    section3,        \* Grib2Csv.section3
    section5,        \* Grib2Csv.section5
    with_header,     \* Grib2Csv.with_header
    input,           \* the file from section 7 on, as the reader sees it
    boundary,        \* boundary[k]: the Boundary given to conversion k
    conv,            \* conv[k]: locals, reader position and result of conversion k
    file,            \* the file's sections 0..6 as Grib2Csv::new reads them
    parse,           \* Grib2Csv::new: position, fields read, result
    call,            \* arguments of a pure function under test
    ret              \* its result

vars == <<overflow_checks, section3, section5, with_header, input, boundary,
          conv, file, parse, call, ret>>

----------------------------------------------------------------------------
(* Widths (scaled) and bounds *)

\* codeword width in bits; 8 in the source, scaled
BITS_PER_DATA == 2
\* width of u16 in bits, scaled
U16Bits == 3
\* width of u32 in bits, scaled
U32Bits == 4

U16 == 2 ^ U16Bits
U32 == 2 ^ U32Bits
\* u64 holds every product of two u32 values
U64 == U32 * U32

\* Option<u32>
None == <<>>
Some(x) == <<x>>

\* the exact result x of an operation in a type of m values: out of range
Ovf(x, m) == x < 0 \/ x >= m
\* what the operation leaves when the build does not check overflow
Wrap(x, m) == x % m
\* a value with the overflows met on the way to it
ck(x, m, o) == [v |-> Wrap(x, m), o |-> o \/ Ovf(x, m)]

----------------------------------------------------------------------------
(* Boundary *)

\* a variant of contains whose bounds exclude the coordinates on them
Boundary_contains_exclusive(b, longitude, latitude) ==
    IF b.northernmost # None /\ b.northernmost[1] <= latitude THEN FALSE
    ELSE IF b.southernmost # None /\ latitude <= b.southernmost[1] THEN FALSE
    ELSE IF b.westernmost # None /\ longitude <= b.westernmost[1] THEN FALSE
    ELSE IF b.easternmost # None /\ b.easternmost[1] <= longitude THEN FALSE
    ELSE TRUE

\* Boundary::contains, lib.rs 63-86
Boundary_contains(b, longitude, latitude) ==
    IF b.northernmost # None /\ b.northernmost[1] < latitude THEN FALSE
    ELSE IF b.southernmost # None /\ latitude < b.southernmost[1] THEN FALSE
    ELSE IF b.westernmost # None /\ longitude < b.westernmost[1] THEN FALSE
    ELSE IF b.easternmost # None /\ b.easternmost[1] < longitude THEN FALSE
    ELSE TRUE

----------------------------------------------------------------------------
(* expand_run_length *)

\* u32::pow: one multiplication by the base
pow_mul(r, base) == ck(r.v * base, U32, r.o)

\* lngu.pow(exp) in u32
RECURSIVE pow_u32(_, _)
pow_u32(base, exp) ==
    IF exp = 0 THEN [v |-> 1, o |-> FALSE]
    ELSE pow_mul(pow_u32(base, exp - 1), base)

\* p * (v - (maxv + 1)), lib.rs 959
term_mul(p, d) == ck(p.v * Wrap(d, U32), U32, p.o \/ Ovf(d, U32))

\* lngu.pow(i) * (v - (maxv + 1)) for v = values[1..][i], i counted from 0
run_length_term(values, maxv, lngu, i) ==
    term_mul(pow_u32(lngu, i), values[i + 2] - (maxv + 1))

\* one addition of .sum(), lib.rs 960
sum_add(s, t) == ck(s.v + t.v, U32, s.o \/ t.o)

\* .sum() over the first n terms
RECURSIVE run_length_sum(_, _, _, _)
run_length_sum(values, maxv, lngu, n) ==
    IF n = 0 THEN [v |-> 0, o |-> FALSE]
    ELSE sum_add(run_length_sum(values, maxv, lngu, n - 1),
                 run_length_term(values, maxv, lngu, n - 1))

\* (values[0] as u16, count + 1), lib.rs 962
run_length_result(level, s) ==
    [panic |-> overflow_checks /\ (s.o \/ Ovf(s.v + 1, U32)),
     level |-> level,
     count |-> Wrap(s.v + 1, U32)]

\* expand_run_length, lib.rs 944-963; the assert of line 945 panics in every build
expand_run_length(values, maxv, lngu) ==
    IF ~(values[1] <= maxv) THEN [panic |-> TRUE, level |-> 0, count |-> 0]
    ELSE IF Len(values) = 1 THEN [panic |-> FALSE, level |-> values[1], count |-> 1]
    ELSE run_length_result(values[1],
                           run_length_sum(values, maxv, lngu, Len(values) - 1))

----------------------------------------------------------------------------
(* move_lattice_for_missing_values *)

\* a variant of lines 343-349 that lands one column further east after a
\* row change
move_lattice_wrap_east(m32, lat1, lon1, longitude_increment, latitude_increment, westernmost, easternmost) ==
    IF easternmost < lon1.v
    THEN [panic |-> overflow_checks /\ (lat1.o \/ lon1.o),
          longitude |-> Wrap(westernmost + Wrap(lon1.v - easternmost, m32), m32),
          latitude |-> Wrap(lat1.v - latitude_increment, m32)]
    ELSE [panic |-> overflow_checks /\ (lat1.o \/ lon1.o),
          longitude |-> lon1.v,
          latitude |-> lat1.v]

\* lib.rs 343-349: the cursor from the moved latitude lat1 and longitude lon1;
\* m32 is the number of values of u32
move_lattice_wrap(m32, lat1, lon1, longitude_increment, latitude_increment, westernmost, easternmost) ==
    IF easternmost < lon1.v
    THEN [panic |-> overflow_checks
                     /\ (lat1.o \/ lon1.o
                         \/ Ovf(lon1.v - easternmost - longitude_increment, m32)
                         \/ Ovf(westernmost
                                + Wrap(lon1.v - easternmost - longitude_increment, m32), m32)
                         \/ Ovf(lat1.v - latitude_increment, m32)),
          longitude |-> Wrap(westernmost
                             + Wrap(lon1.v - easternmost - longitude_increment, m32), m32),
          latitude |-> Wrap(lat1.v - latitude_increment, m32)]
    ELSE [panic |-> overflow_checks /\ (lat1.o \/ lon1.o),
          longitude |-> lon1.v,
          latitude |-> lat1.v]

\* lib.rs 336: latitude -= latitude_increment * lat_inc_times as u32
move_lattice_latitude(m32, latitude, latitude_increment, lat_inc_times) ==
    ck(latitude - Wrap(latitude_increment * Wrap(lat_inc_times, m32), m32), m32,
       Ovf(latitude_increment * Wrap(lat_inc_times, m32), m32))

\* lib.rs 341-342: longitude += ((sum % width) - (increment * times)) as u32;
\* m64 is the number of values of u64
move_lattice_longitude(m32, m64, longitude, rest, p) ==
    ck(longitude + Wrap(Wrap(rest - Wrap(p, m64), m64), m32), m32,
       Ovf(p, m64) \/ Ovf(rest - Wrap(p, m64), m64))

\* lib.rs 334-349, from lattice_width and sum_of_lon_inc on
move_lattice_by(m32, m64, longitude, latitude, longitude_increment, latitude_increment, westernmost, easternmost, lattice_width, sum_of_lon_inc) ==
    move_lattice_wrap(m32,
        move_lattice_latitude(m32, latitude, latitude_increment,
                              sum_of_lon_inc \div lattice_width),
        move_lattice_longitude(m32, m64, longitude, sum_of_lon_inc % lattice_width,
                               longitude_increment * (sum_of_lon_inc \div lattice_width)),
        longitude_increment, latitude_increment, westernmost, easternmost)

\* move_lattice_for_missing_values, lib.rs 319-350, in integers of m32 and
\* m64 values; the division of line 334 panics in every build when
\* lattice_width is 0
move_lattice_in(m32, m64, longitude, latitude, count, longitude_increment, latitude_increment, westernmost, easternmost) ==
    IF (overflow_checks /\ Ovf(easternmost - westernmost, m32))
       \/ Wrap(easternmost - westernmost, m32) = 0
    THEN [panic |-> TRUE, longitude |-> longitude, latitude |-> latitude]
    ELSE move_lattice_by(m32, m64, longitude, latitude, longitude_increment,
                         latitude_increment, westernmost, easternmost,
                         Wrap(easternmost - westernmost, m32),
                         longitude_increment * count)

\* move_lattice_for_missing_values, lib.rs 319-350, in the u32 and u64 of the
\* model
move_lattice_for_missing_values(longitude, latitude, count, longitude_increment, latitude_increment, westernmost, easternmost) ==
    move_lattice_in(U32, U64, longitude, latitude, count, longitude_increment,
                    latitude_increment, westernmost, easternmost)

----------------------------------------------------------------------------
(* Grib2Csv::output_values *)

\* "{:.6}" of (x as f64) / 1_000_000f64: integer part and six decimals
format_degree(x) == <<x \div 1000000, x % 1000000>>

\* one line of the CSV file, lib.rs 272-278
csv_row(longitude, latitude, value) ==
    <<format_degree(longitude), format_degree(latitude), value>>

\* lib.rs 280-284: one column east, or the first column of the next row
advance_cell(st, rows) ==
    IF overflow_checks /\ Ovf(st.longitude + section3.longitude_increment, U32)
    THEN [st EXCEPT !.panic = TRUE, !.rows = rows]
    ELSE IF section3.easternmost < Wrap(st.longitude + section3.longitude_increment, U32)
    THEN [panic |-> overflow_checks /\ Ovf(st.latitude - section3.latitude_increment, U32),
          rows |-> rows,
          longitude |-> section3.westernmost,
          latitude |-> Wrap(st.latitude - section3.latitude_increment, U32)]
    ELSE [st EXCEPT !.rows = rows,
                    !.longitude = Wrap(st.longitude + section3.longitude_increment, U32)]

\* lib.rs 271-285: one pass of the loop; level_values[level - 1] panics when out of range
output_cell(level, b, st, contained) ==
    IF contained /\ ~(level - 1 < Len(section5.level_values))
    THEN [st EXCEPT !.panic = TRUE]
    ELSE advance_cell(st, IF contained
                          THEN Append(st.rows, csv_row(st.longitude, st.latitude,
                                                       section5.level_values[level]))
                          ELSE st.rows)

\* lib.rs 270-285: for _ in 0..count, k passes left
RECURSIVE output_cells(_, _, _, _)
output_cells(level, k, b, st) ==
    IF k = 0 \/ st.panic THEN st
    ELSE output_cells(level, k - 1, b,
                      output_cell(level, b, st,
                                  Boundary_contains(b, st.longitude, st.latitude)))

\* lib.rs 288-296
output_missing(m) ==
    [panic |-> m.panic, rows |-> <<>>, longitude |-> m.longitude, latitude |-> m.latitude]

\* Grib2Csv::output_values, lib.rs 260-300
output_values(level, count, longitude, latitude, b) ==
    IF 0 < level
    THEN output_cells(level, count, b,
                      [panic |-> FALSE, rows |-> <<>>,
                       longitude |-> longitude, latitude |-> latitude])
    ELSE output_missing(
             move_lattice_for_missing_values(longitude, latitude, count,
                 section3.longitude_increment, section3.latitude_increment,
                 section3.westernmost, section3.easternmost))

----------------------------------------------------------------------------
(* Grib2Csv::convert *)

\* the conversions that run side by side on the same session and file
Runs == {1, 2}

\* the byte '7' of the end marker "7777"
ASCII_7 == 55

\* convert has not been called yet
conv_idle ==
    [pc |-> "begin", result |-> "none", error |-> "none",
     writer |-> [header |-> FALSE, rows |-> <<>>],
     lngu |-> 0, iterations |-> 0, i |-> 0, run_length |-> <<>>,
     longitude |-> 0, latitude |-> 0, number_of_read |-> 0,
     \* history, not program state: the sets handed to expand_run_length, the
     \* runs it returned, the exact sum of their counts, the cursor after each run
     passed |-> <<>>, decoded |-> <<>>, sum_counts |-> 0, trail |-> <<>>]

\* convert returns Err(..) or Ok(()), or unwinds with a panic
finish(c, result, error) ==
    [c EXCEPT !.pc = "done", !.result = result, !.error = error]

\* lib.rs 207-215: lngu, the cursor and the number of codewords to read
convert_setup(c, l, n) ==
    IF overflow_checks /\ (Ovf(2 ^ section5.bits_per_data, U16) \/ Ovf(l, U16)
                           \/ Ovf(n, U32))
    THEN finish(c, "Panic", "overflow")
    ELSE [c EXCEPT !.pc = "loop",
                   !.lngu = Wrap(l, U16),
                   !.iterations = Wrap(n, U32),
                   !.longitude = section3.westernmost,
                   !.latitude = section3.northernmost]

\* lib.rs 197-204: the head of section 7
convert_head(c, head) ==
    IF head.section_bytes = None THEN finish(c, "Err", "read_u32")
    ELSE IF head.section_number = None THEN finish(c, "Err", "read_u8")
    ELSE IF head.section_number[1] # 7 THEN finish(c, "Err", "section_number")
    ELSE convert_setup(c,
             Wrap(2 ^ section5.bits_per_data, U16) - 1 - section5.max_level_at_file,
             head.section_bytes[1] - (4 + 1))

\* lib.rs 184-215: create the file, write the header line, read the head of
\* section 7, compute lngu, set the cursor
convert_begin(c, head) ==
    convert_head([c EXCEPT !.writer.header = with_header], head)

\* lib.rs 222-229: the cells of the run are written and the cursor moved
process_run_output(c, o) ==
    IF o.panic
    THEN finish([c EXCEPT !.writer.rows = @ \o o.rows], "Panic", "output_values")
    ELSE [c EXCEPT !.writer.rows = @ \o o.rows,
                   !.longitude = o.longitude,
                   !.latitude = o.latitude,
                   !.trail = Append(@, <<o.longitude, o.latitude>>)]

\* lib.rs 220-229: number_of_read += count, then output_values
process_run_count(c, b, e) ==
    IF e.panic THEN finish(c, "Panic", "expand_run_length")
    ELSE IF overflow_checks /\ Ovf(c.number_of_read + e.count, U32)
    THEN finish(c, "Panic", "overflow")
    ELSE process_run_output(
             [c EXCEPT !.decoded = Append(@, <<c.run_length, e.level, e.count>>),
                       !.sum_counts = @ + e.count,
                       !.number_of_read = Wrap(@ + e.count, U32)],
             output_values(e.level, e.count, c.longitude, c.latitude, b))

\* lib.rs 219-229 and 235-244: expand the set, count its cells, write them
process_run(c, b) ==
    process_run_count([c EXCEPT !.passed = Append(@, c.run_length)], b,
                      expand_run_length(c.run_length, section5.max_level_at_file, c.lngu))

\* lib.rs 230: run_length.clear()
clear_run_length(c) ==
    IF c.pc = "done" THEN c ELSE [c EXCEPT !.run_length = <<>>]

\* lib.rs 232: run_length.push(value), and the loop counts one pass
push_codeword(c, value) ==
    IF c.pc = "done" THEN c
    ELSE [c EXCEPT !.run_length = Append(@, value), !.i = @ + 1]

\* a variant of the loop body that starts a new set only below max_level_at_file
convert_codeword_below(c, value, b) ==
    IF value < section5.max_level_at_file /\ c.run_length # <<>>
    THEN push_codeword(clear_run_length(process_run(c, b)), value)
    ELSE push_codeword(c, value)

\* lib.rs 216-232: the loop body once read_u8 has returned value
convert_codeword(c, value, b) ==
    IF value <= section5.max_level_at_file /\ c.run_length # <<>>
    THEN push_codeword(clear_run_length(process_run(c, b)), value)
    ELSE push_codeword(c, value)

\* lib.rs 246: the loop is over, writer.flush()
flushed(c) ==
    IF c.pc = "done" THEN c ELSE [c EXCEPT !.pc = "check"]

\* lib.rs 234-246: the last set, then writer.flush()
convert_flush(c, b) ==
    IF c.run_length # <<>> THEN flushed(process_run(c, b)) ELSE flushed(c)

\* lib.rs 247-253
convert_check(c) ==
    IF c.number_of_read # section3.number_of_points
    THEN finish(c, "Err", "points")
    ELSE [c EXCEPT !.pc = "section8"]

\* read_section8, lib.rs 870-883: size bytes of tail were read
read_section8(tail, size) ==
    IF size # 4 THEN "Err"
    ELSE IF tail = <<ASCII_7, ASCII_7, ASCII_7, ASCII_7>> THEN "Ok"
    ELSE "Err"

\* lib.rs 254-257
convert_section8(c, tail, size) ==
    IF read_section8(tail, size) = "Ok"
    THEN finish(c, "Ok", "none")
    ELSE finish(c, "Err", "section8")

----------------------------------------------------------------------------
(* Sessions, files and boundaries the conversions are run on *)

\* the file holds at most MaxLen codewords after the head of section 7
MaxLen == 4
\* the codewords the file is made of
Codewords == {0, 1, 2, 3}
\* the grid of section 3: columns by rows, one increment apart
GridColumns == 3
GridRows == 2
\* max_level_at_file ranges over 0 .. MaxLevelAtFile
MaxLevelAtFile == 2
\* level_values holds MaxLevels - 1 or MaxLevels entries
MaxLevels == 2

Section3s ==
    {[number_of_points |-> GridColumns * GridRows,
      northernmost |-> GridRows,
      westernmost |-> 1,
      southernmost |-> 1,
      easternmost |-> GridColumns,
      longitude_increment |-> 1,
      latitude_increment |-> 1]}

\* the sessions Grib2Csv::new returns have equal point counts in sections 3
\* and 5 and BITS_PER_DATA bits per codeword
Section5s(s3) ==
    {[number_of_points |-> s3.number_of_points,
      bits_per_data |-> BITS_PER_DATA,
      max_level_at_file |-> maxv,
      max_level |-> MaxLevelAtFile,
      level_values |-> [i \in 1..n |-> i + 4]] :
        maxv \in 0..MaxLevelAtFile, n \in (MaxLevels - 1)..MaxLevels}

\* Boundary::default()
Boundary_default ==
    [northernmost |-> None, southernmost |-> None,
     westernmost |-> None, easternmost |-> None]

Boundaries ==
    {Boundary_default,
     [northernmost |-> Some(1), southernmost |-> None,
      westernmost |-> Some(2), easternmost |-> None],
     [northernmost |-> None, southernmost |-> Some(2),
      westernmost |-> None, easternmost |-> Some(2)]}

\* the head of section 7: its length and its number, None where the file ends
Heads ==
    {[section_bytes |-> Some(n), section_number |-> Some(7)] :
        n \in 4..(5 + MaxLen)}
    \cup {[section_bytes |-> None, section_number |-> None],
          [section_bytes |-> Some(5), section_number |-> None],
          [section_bytes |-> Some(5), section_number |-> Some(6)]}

\* what follows the codewords of section 7 in a file that has not ended
Tails ==
    {<<>>, <<ASCII_7, ASCII_7, ASCII_7>>, <<ASCII_7, ASCII_7, ASCII_7, ASCII_7>>,
     <<ASCII_7, ASCII_7, ASCII_7, 0>>}

\* what reader.read(&mut buf) of 4 bytes may return on tail: all of it, or less
\* when the BufReader's buffer ends inside it
ReadSizes(tail) == IF tail = <<>> THEN {0} ELSE 1..Len(tail)

no_call == <<>>

\* a file of which nothing has been read yet but the head of section 7; the
\* file holds at most limit codewords, each one of codewords
input_over(head, limit, codewords) ==
    [section_bytes |-> head.section_bytes, section_number |-> head.section_number,
     limit |-> limit, codewords |-> codewords,
     bytes |-> <<>>, ended |-> FALSE, tail |-> <<>>]

\* such a file made of the codewords of Codewords
input_of(head, limit) == input_over(head, limit, Codewords)

Init ==
    /\ overflow_checks \in BOOLEAN
    /\ section3 \in Section3s
    /\ section5 \in Section5s(section3)
    /\ with_header \in BOOLEAN
    /\ \E head \in Heads : input = input_of(head, MaxLen)
    /\ \E b \in Boundaries : boundary = [k \in Runs |-> IF k = 1 THEN b ELSE Boundary_default]
    /\ conv = [k \in Runs |-> conv_idle]
    /\ file = no_call
    /\ parse = no_call
    /\ call = no_call
    /\ ret = no_call

at(pc) == {k \in Runs : conv[k].pc = pc}

session_unchanged == UNCHANGED <<overflow_checks, section3, section5, with_header,
                                boundary, file, parse, call, ret>>

ConvertBegin ==
    /\ at("begin") # {}
    /\ conv' = [k \in Runs |-> IF k \in at("begin")
                                THEN convert_begin(conv[k], input) ELSE conv[k]]
    /\ UNCHANGED input
    /\ session_unchanged

\* read_u8 returns the next codeword of the file
ConvertReadCodeword ==
    /\ \E k \in at("loop") : conv[k].i < conv[k].iterations
    /\ ~input.ended
    /\ Len(input.bytes) < input.limit
    /\ \E value \in input.codewords :
          /\ input' = [input EXCEPT !.bytes = Append(@, value)]
          /\ conv' = [k \in Runs |-> IF k \in at("loop")
                                      THEN convert_codeword(conv[k], value, boundary[k])
                                      ELSE conv[k]]
    /\ session_unchanged

\* a variant of the failed read that leaves the loop as if the section were over
ConvertReadFails_break ==
    /\ \E k \in at("loop") : conv[k].i < conv[k].iterations
    /\ input' = [input EXCEPT !.ended = TRUE]
    /\ conv' = [k \in Runs |-> IF k \in at("loop")
                                THEN convert_flush(conv[k], boundary[k]) ELSE conv[k]]
    /\ session_unchanged

\* read_u8 fails: the file ends inside section 7
ConvertReadFails ==
    /\ \E k \in at("loop") : conv[k].i < conv[k].iterations
    /\ input' = [input EXCEPT !.ended = TRUE]
    /\ conv' = [k \in Runs |-> IF k \in at("loop")
                                THEN finish(conv[k], "Err", "read_u8") ELSE conv[k]]
    /\ session_unchanged

ConvertFlush ==
    /\ \E k \in at("loop") : conv[k].i = conv[k].iterations
    /\ conv' = [k \in Runs |-> IF k \in at("loop")
                                THEN convert_flush(conv[k], boundary[k]) ELSE conv[k]]
    /\ UNCHANGED input
    /\ session_unchanged

ConvertCheck ==
    /\ at("check") # {}
    /\ conv' = [k \in Runs |-> IF k \in at("check")
                                THEN convert_check(conv[k]) ELSE conv[k]]
    /\ UNCHANGED input
    /\ session_unchanged

ConvertSection8 ==
    /\ at("section8") # {}
    /\ \E tail \in (IF input.ended THEN {<<>>} ELSE Tails) :
       \E size \in ReadSizes(tail) :
          /\ input' = [input EXCEPT !.tail = tail]
          /\ conv' = [k \in Runs |-> IF k \in at("section8")
                                      THEN convert_section8(conv[k], tail, size)
                                      ELSE conv[k]]
    /\ session_unchanged

Next ==
    \/ ConvertBegin
    \/ ConvertReadCodeword
    \/ ConvertReadFails
    \/ ConvertFlush
    \/ ConvertCheck
    \/ ConvertSection8

Spec == Init /\ [][Next]_vars

\* longer files: section 7 declares MaxLenDeep codewords, the level table is
\* full, and both conversions run without header under the default boundary
MaxLenDeep == 7

InitDeep ==
    /\ overflow_checks \in BOOLEAN
    /\ section3 \in Section3s
    /\ section5 \in {s5 \in Section5s(section3) : Len(s5.level_values) = MaxLevels}
    /\ with_header = FALSE
    /\ input = input_of([section_bytes |-> Some(5 + MaxLenDeep),
                         section_number |-> Some(7)], MaxLenDeep)
    /\ boundary = [k \in Runs |-> Boundary_default]
    /\ conv = [k \in Runs |-> conv_idle]
    /\ file = no_call
    /\ parse = no_call
    /\ call = no_call
    /\ ret = no_call

SpecDeep == InitDeep /\ [][Next]_vars

\* files whose section 7 declares a length below its head of 5 bytes: without
\* overflow checks section_bytes - (4 + 1) wraps and the loop asks for up to
\* U32 - 1 codewords; the files hold that many, each a missing level or a
\* continuation with digit 0
MissingOrZeroDigit == {0, 2}

InitShort ==
    /\ overflow_checks \in BOOLEAN
    /\ section3 \in Section3s
    /\ section5 \in {s5 \in Section5s(section3) :
                        s5.max_level_at_file = 1 /\ Len(s5.level_values) = MaxLevels}
    /\ with_header = FALSE
    /\ \E n \in {3, 4} :
          input = input_over([section_bytes |-> Some(n), section_number |-> Some(7)],
                             U32 - 1, MissingOrZeroDigit)
    /\ boundary = [k \in Runs |-> Boundary_default]
    /\ conv = [k \in Runs |-> conv_idle]
    /\ file = no_call
    /\ parse = no_call
    /\ call = no_call
    /\ ret = no_call

SpecShort == InitShort /\ [][Next]_vars

----------------------------------------------------------------------------
(* The run-length format, stated apart from the code *)

\* the codewords conversion k has taken into its sets
consumed(k) == SubSeq(input.bytes, 1, conv[k].i)

\* the j-th smallest element of a set of numbers
Nth(S, j) == CHOOSE x \in S : Cardinality({y \in S : y < x}) = j - 1

\* the positions of s where a set starts: the codewords <= maxv
SetStarts(s, maxv) == {j \in 1..Len(s) : s[j] <= maxv}

\* where the n-th set of s ends
SetEnd(s, maxv, n) ==
    IF n = Cardinality(SetStarts(s, maxv)) THEN Len(s)
    ELSE Nth(SetStarts(s, maxv), n + 1) - 1

\* the segmentation of s: each set starts at a codeword <= maxv and holds
\* the codewords > maxv that follow it; s = <<>> or s[1] <= maxv
Segmentation(s, maxv) ==
    [n \in 1..Cardinality(SetStarts(s, maxv)) |->
        SubSeq(s, Nth(SetStarts(s, maxv), n), SetEnd(s, maxv, n))]

Segmentable(s, maxv) == s = <<>> \/ s[1] <= maxv

\* the sets of a history of decoded runs
SetsOf(decoded) == [n \in 1..Len(decoded) |-> decoded[n][1]]

IsPrefix(s, t) == Len(s) <= Len(t) /\ s = SubSeq(t, 1, Len(s))

----------------------------------------------------------------------------
(* Claims about convert's loop *)

\* the codewords of the example in the documentation of expand_run_length,
\* with maxv = 10 and lngu = 5, and the levels they stand for
Example_codewords == <<3, 9, 12, 6, 4, 15, 2, 1, 0, 13, 12, 2, 3>>
Example_levels == <<3, 9, 9, 6, 4, 4, 4, 4, 4, 2, 1, 0, 0, 0, 0, 0, 0, 0, 0, 2, 3>>

\* the cells of one run
run_levels(e) == [j \in 1..e.count |-> e.level]

\* the cells of the first n sets, each expanded by expand_run_length
RECURSIVE Expansion(_, _, _, _)
Expansion(sets, maxv, lngu, n) ==
    IF n = 0 THEN <<>>
    ELSE Expansion(sets, maxv, lngu, n - 1)
         \o run_levels(expand_run_length(sets[n], maxv, lngu))

\* conversion k has left the loop through its end and the flush of the last set
flushed_all(c) ==
    \/ c.pc \in {"check", "section8"}
    \/ c.result = "Ok"
    \/ c.result = "Err" /\ c.error \in {"points", "section8"}

\* the sets conversion c decoded out of the codewords s it consumed
segmented(c, s, sets) ==
    /\ IsPrefix(SetsOf(c.decoded), sets)
    /\ \A n \in 1..Len(c.decoded) : c.decoded[n][2] = sets[n][1]
    /\ c.pc = "loop" /\ s # <<>> => Append(SetsOf(c.decoded), c.run_length) = sets
    /\ flushed_all(c) => SetsOf(c.decoded) = sets /\ Len(s) = c.iterations

C6_FirstCodewordIsLevel ==
    \A k \in Runs : \A n \in 1..Len(conv[k].passed) :
        conv[k].passed[n][1] <= section5.max_level_at_file

\* C8: two conversions of the same session and file that differ only in the
\* boundary move the cursor alike, count the same cells and end alike
C8_BoundaryIndependent ==
    /\ conv[1].pc = conv[2].pc
    /\ conv[1].result = conv[2].result
    /\ conv[1].error = conv[2].error
    /\ conv[1].trail = conv[2].trail
    /\ conv[1].longitude = conv[2].longitude
    /\ conv[1].latitude = conv[2].latitude
    /\ conv[1].number_of_read = conv[2].number_of_read

\* the file ends with fewer codewords than section 7 declares
truncated ==
    /\ input.ended
    /\ input.section_bytes # None
    /\ Len(input.bytes) < input.section_bytes[1] - 5

----------------------------------------------------------------------------
(* Claims about the rows and the point count *)

\* a coordinate lies inside every edge the boundary configures, edges included
Within(b, longitude, latitude) ==
    /\ b.northernmost # None => latitude <= b.northernmost[1]
    /\ b.southernmost # None => b.southernmost[1] <= latitude
    /\ b.westernmost # None => b.westernmost[1] <= longitude
    /\ b.easternmost # None => longitude <= b.easternmost[1]

\* the value the continuation codewords of a set stand for: its first n
\* digits in radix lngu, least significant first
RECURSIVE DigitsValue(_, _, _, _)
DigitsValue(set, maxv, lngu, n) ==
    IF n = 0 THEN 0
    ELSE DigitsValue(set, maxv, lngu, n - 1)
         + (lngu ^ (n - 1)) * (set[n + 1] - (maxv + 1))

\* the number of cells a set stands for
RunCount(set, maxv, lngu) == 1 + DigitsValue(set, maxv, lngu, Len(set) - 1)

\* the levels of the cells the first n sets stand for
RECURSIVE ExpandAll(_, _, _, _)
ExpandAll(sets, maxv, lngu, n) ==
    IF n = 0 THEN <<>>
    ELSE ExpandAll(sets, maxv, lngu, n - 1)
         \o [j \in 1..RunCount(sets[n], maxv, lngu) |-> sets[n][1]]

\* the levels of the cells the codewords s stand for
LevelsOf(s, maxv) ==
    ExpandAll(Segmentation(s, maxv), maxv, 2 ^ BITS_PER_DATA - 1 - maxv,
              Len(Segmentation(s, maxv)))

\* the number of columns of the grid
Columns == (section3.easternmost - section3.westernmost)
               \div section3.longitude_increment + 1

\* the cells in raster order from (westernmost, northernmost)
Cells(levels) ==
    [j \in 1..Len(levels) |->
        [longitude |-> section3.westernmost
                         + ((j - 1) % Columns) * section3.longitude_increment,
         latitude |-> section3.northernmost
                        - ((j - 1) \div Columns) * section3.latitude_increment,
         level |-> levels[j]]]

\* the cells that get a row
Written(cells, b) ==
    SelectSeq(cells, LAMBDA c : c.level > 0 /\ Within(b, c.longitude, c.latitude))

\* level_values[level - 1], -1 where the table has no such entry
LevelValue(level) ==
    IF level \in 1..Len(section5.level_values)
    THEN section5.level_values[level] ELSE -1

RowsOf(cells) ==
    [j \in 1..Len(cells) |->
        csv_row(cells[j].longitude, cells[j].latitude, LevelValue(cells[j].level))]

\* the rows of a conversion of the codewords s under the boundary b
ExpectedRows(s, b) ==
    RowsOf(Written(Cells(LevelsOf(s, section5.max_level_at_file)), b))

\* C1: the rows a conversion that returned Ok has written are, in raster
\* order from (westernmost, northernmost), the cells of the run-length
\* expansion with a level > 0 and a coordinate inside the boundary, each with
\* its longitude, latitude and level_values[level - 1], and no other row
C1_RowsAreFilteredRaster ==
    \A k \in Runs :
        conv[k].result = "Ok" =>
            conv[k].writer.rows = ExpectedRows(consumed(k), boundary[k])

\* C3: a conversion returns Ok only if the counts of its decoded runs sum to
\* the point count of section 3, and a conversion that returns after the
\* whole section with another sum returns an error
C3_OkOnlyIfCountsSumToPoints ==
    \A k \in Runs :
        /\ conv[k].result = "Ok" => conv[k].sum_counts = section3.number_of_points
        /\ conv[k].pc = "done" /\ flushed_all(conv[k])
              /\ conv[k].sum_counts # section3.number_of_points
           => conv[k].result = "Err"

----------------------------------------------------------------------------
(* The pure functions, called on their own *)

\* no session, file or conversion takes part in a call of a pure function
no_session ==
    /\ section3 \in Section3s
    /\ section5 = [number_of_points |-> section3.number_of_points,
                   bits_per_data |-> BITS_PER_DATA, max_level_at_file |-> 0,
                   max_level |-> MaxLevelAtFile, level_values |-> <<>>]
    /\ with_header = FALSE
    /\ input = input_of([section_bytes |-> None, section_number |-> None], 0)
    /\ boundary = [k \in Runs |-> Boundary_default]
    /\ conv = [k \in Runs |-> conv_idle]
    /\ file = no_call
    /\ parse = no_call

\* the function returns: ret holds its result
returns(result) ==
    /\ ret = no_call
    /\ ret' = Some(result)
    /\ UNCHANGED <<overflow_checks, section3, section5, with_header, input,
                   boundary, conv, file, parse, call>>

\* Boundary::contains on boundaries with edges at 1 and 2 and the
\* coordinates around them
MaxDegree == 3
Edges == {None, Some(1), Some(2)}
ContainsCalls ==
    {[boundary |-> [northernmost |-> n, southernmost |-> so,
                    westernmost |-> w, easternmost |-> e],
      longitude |-> lon, latitude |-> lat] :
        n \in Edges, so \in Edges, w \in Edges, e \in Edges,
        lon \in 0..MaxDegree, lat \in 0..MaxDegree}

InitContains ==
    /\ overflow_checks = FALSE
    /\ no_session
    /\ call \in ContainsCalls
    /\ ret = no_call

ContainsReturns ==
    returns(Boundary_contains(call.boundary, call.longitude, call.latitude))

SpecContains == InitContains /\ [][ContainsReturns]_vars

\* C7: contains(longitude, latitude) is true iff the coordinate is inside
\* every configured bound, bounds included: a coordinate on a bound is not
\* excluded by it, an unconfigured bound excludes nothing, and the boundary
\* with no bound contains every coordinate
C7_ContainsIsInclusive ==
    ret # no_call =>
        /\ ret[1] = Within(call.boundary, call.longitude, call.latitude)
        /\ call.boundary = Boundary_default => ret[1] = TRUE
        /\ call.boundary.northernmost \in {None, Some(call.latitude)}
              /\ call.boundary.southernmost \in {None, Some(call.latitude)}
              /\ call.boundary.westernmost \in {None, Some(call.longitude)}
              /\ call.boundary.easternmost \in {None, Some(call.longitude)}
           => ret[1] = TRUE

\* contains has returned true for a coordinate on two configured bounds
C7_Witness ==
    /\ ret = Some(TRUE)
    /\ call.boundary.northernmost = Some(call.latitude)
    /\ call.boundary.westernmost = Some(call.longitude)
    /\ call.boundary.southernmost # None
    /\ call.boundary.easternmost # None

\* move_lattice_for_missing_values on grids of 2 .. MoveColumns columns from
\* every column, for counts up to MoveCount
MoveColumns == 3
MoveCount == 6
MoveLatitude == 8
MoveGrids ==
    {g \in [columns : 2..MoveColumns, column : 0..(MoveColumns - 1)] :
        g.column < g.columns}
MoveCalls ==
    {[longitude |-> w + g.column * i, latitude |-> MoveLatitude, count |-> n,
      longitude_increment |-> i, latitude_increment |-> j,
      westernmost |-> w, easternmost |-> w + (g.columns - 1) * i] :
        w \in 0..1, i \in 1..2, j \in 1..2, n \in 0..MoveCount, g \in MoveGrids}

InitMove ==
    /\ overflow_checks \in BOOLEAN
    /\ no_session
    /\ call \in MoveCalls
    /\ ret = no_call

MoveReturns ==
    returns(move_lattice_for_missing_values(
                call.longitude, call.latitude, call.count,
                call.longitude_increment, call.latitude_increment,
                call.westernmost, call.easternmost))

SpecMove == InitMove /\ [][MoveReturns]_vars

\* the cursor advanced one cell at a time, count times, with row wraparound
RECURSIVE NaiveMove(_, _, _, _, _, _, _)
NaiveMove(longitude, latitude, count, longitude_increment, latitude_increment, westernmost, easternmost) ==
    IF count = 0 THEN <<longitude, latitude>>
    ELSE IF longitude + longitude_increment > easternmost
    THEN NaiveMove(westernmost, latitude - latitude_increment, count - 1,
                   longitude_increment, latitude_increment, westernmost, easternmost)
    ELSE NaiveMove(longitude + longitude_increment, latitude, count - 1,
                   longitude_increment, latitude_increment, westernmost, easternmost)

\* C2: on a grid with 0 < longitude_increment, 0 < latitude_increment and
\* westernmost < easternmost, from every cursor on the lattice and for every
\* count, move_lattice_for_missing_values returns the cursor advanced one
\* cell at a time, count times, with row wraparound
C2_MoveEqualsCellByCell ==
    ret # no_call /\ ~ret[1].panic =>
        <<ret[1].longitude, ret[1].latitude>>
            = NaiveMove(call.longitude, call.latitude, call.count,
                        call.longitude_increment, call.latitude_increment,
                        call.westernmost, call.easternmost)

\* expand_run_length on the sets of up to MaxSetLen codewords, with the
\* lngu of each max_level_at_file, and on the documented examples
MaxSetLen == 4
ExpandSets(maxv) ==
    {set \in UNION {[1..n -> Codewords] : n \in 1..MaxSetLen} :
        set[1] <= maxv /\ \A n \in 2..Len(set) : set[n] > maxv}
ExpandExamples ==
    {[values |-> v, maxv |-> 10, lngu |-> 5] :
        v \in {<<3>>, <<9, 12>>, <<4, 15>>, <<0, 13, 12>>}}
ExpandCallsAt(maxv) ==
    {[values |-> v, maxv |-> maxv, lngu |-> 2 ^ BITS_PER_DATA - 1 - maxv] :
        v \in ExpandSets(maxv)}
ExpandCalls ==
    UNION {ExpandCallsAt(maxv) : maxv \in 0..MaxLevelAtFile} \cup ExpandExamples

InitExpand ==
    /\ overflow_checks \in BOOLEAN
    /\ no_session
    /\ call \in ExpandCalls
    /\ ret = no_call

ExpandReturns == returns(expand_run_length(call.values, call.maxv, call.lngu))

SpecExpand == InitExpand /\ [][ExpandReturns]_vars

\* C4: for every set whose first codeword is <= maxv and whose other
\* codewords are > maxv, expand_run_length returns the first codeword and
\* 1 + the sum of (codes[i] - (maxv + 1)) * lngu^(i-1); with maxv = 10 and
\* lngu = 5, [3] -> (3, 1), [9, 12] -> (9, 2), [4, 15] -> (4, 5) and
\* [0, 13, 12] -> (0, 8)
C4_ExpandRunLength ==
    ret # no_call /\ ~ret[1].panic =>
        /\ ret[1].level = call.values[1]
        /\ ret[1].count = RunCount(call.values, call.maxv, call.lngu)
        /\ call = [values |-> <<3>>, maxv |-> 10, lngu |-> 5] => ret[1].count = 1
        /\ call = [values |-> <<9, 12>>, maxv |-> 10, lngu |-> 5] => ret[1].count = 2
        /\ call = [values |-> <<4, 15>>, maxv |-> 10, lngu |-> 5] => ret[1].count = 5
        /\ call = [values |-> <<0, 13, 12>>, maxv |-> 10, lngu |-> 5]
           => ret[1].count = 8

----------------------------------------------------------------------------
(* Grib2Csv::new *)

\* what sections 0 to 6 of a file hold, as far as new tells files apart:
\* valid says that the section has its number and the constants the reader
\* checks and that the file does not end inside its fixed part
Validity == {"valid", "invalid"}
NumbersOfPoints == {GridColumns * GridRows, GridColumns * GridRows + 1}
\* lengths of section 4: shorter than its head of 5 bytes, and longer
Section4Lengths == {4, 9}
Files ==
    [section0 : Validity,
     section1 : Validity,
     section3 : [valid : BOOLEAN, number_of_points : NumbersOfPoints],
     section4 : [section_number : {4, 0}, length : Section4Lengths],
     \* short: the length is below the 17 bytes before the level table;
     \* table_fits: the file holds the bytes of the table the length declares
     section5 : [valid : BOOLEAN, short : BOOLEAN, table_fits : BOOLEAN,
                 number_of_points : NumbersOfPoints],
     section6 : Validity]

\* new has been called and has read nothing yet
parse_begin ==
    [pc |-> "section0", reads |-> <<>>, past_end |-> FALSE,
     section3 |-> None, section5 |-> None, result |-> "none", error |-> "none"]

\* new returns Err(..), or unwinds with a panic
new_fails(p, result, error) ==
    [p EXCEPT !.pc = "done", !.result = result, !.error = error]

\* the reader enters a section
new_reads(p, section) == [p EXCEPT !.reads = Append(@, section)]

\* lib.rs 145-146: read_section0(&mut reader)?
new_section0(p, f) ==
    IF f.section0 = "valid" THEN [p EXCEPT !.pc = "section1"]
    ELSE new_fails(p, "Err", "section0")

\* lib.rs 147-148: read_section1(&mut reader)?
new_section1(p, f) ==
    IF f.section1 = "valid" THEN [p EXCEPT !.pc = "section3"]
    ELSE new_fails(p, "Err", "section1")

\* read_section3, lib.rs 553-614: the fields of Section3
read_section3(f) ==
    [number_of_points |-> f.section3.number_of_points,
     northernmost |-> GridRows, westernmost |-> 1,
     southernmost |-> 1, easternmost |-> GridColumns,
     longitude_increment |-> 1, latitude_increment |-> 1]

\* lib.rs 149-150: let section3 = read_section3(&mut reader)?
new_section3(p, f) ==
    IF f.section3.valid
    THEN [p EXCEPT !.pc = "section4", !.section3 = Some(read_section3(f))]
    ELSE new_fails(p, "Err", "section3")

\* lib.rs 151-152 and read_section4, lib.rs 731-745: length - (4 + 1) overflows below 5; the
\* wrapped length takes the reader past the end of the file
new_section4(p, f) ==
    IF f.section4.section_number # 4 THEN new_fails(p, "Err", "section4")
    ELSE IF overflow_checks /\ Ovf(f.section4.length - (4 + 1), U32)
    THEN new_fails(p, "Panic", "overflow")
    ELSE [p EXCEPT !.pc = "section5",
                   !.past_end = Ovf(f.section4.length - (4 + 1), U32)]

\* read_section5, lib.rs 767-803: the fields of Section5
read_section5(f) ==
    [number_of_points |-> f.section5.number_of_points,
     bits_per_data |-> BITS_PER_DATA,
     max_level_at_file |-> MaxLevelAtFile,
     max_level |-> MaxLevelAtFile,
     level_values |-> [i \in 1..MaxLevels |-> i + 4]]

\* lib.rs 153-154: let section5 = read_section5(&mut reader)?; length - 17
\* overflows when the length is short (lib.rs 786)
new_section5(p, f) ==
    IF p.past_end \/ ~f.section5.valid THEN new_fails(p, "Err", "section5")
    ELSE IF overflow_checks /\ f.section5.short THEN new_fails(p, "Panic", "overflow")
    ELSE IF ~f.section5.table_fits THEN new_fails(p, "Err", "level_value")
    ELSE [p EXCEPT !.pc = "compare", !.section5 = Some(read_section5(f))]

\* a variant of new that does not compare the point counts
new_compare_skipped(p) == [p EXCEPT !.pc = "section6"]

\* lib.rs 155-161: the point counts of sections 3 and 5
new_compare(p) ==
    IF p.section3[1].number_of_points # p.section5[1].number_of_points
    THEN new_fails(p, "Err", "points")
    ELSE [p EXCEPT !.pc = "section6"]

\* lib.rs 162-170: read_section6(&mut reader)?, then Ok(Self { .. })
new_section6(p, f) ==
    IF f.section6 = "valid" THEN [p EXCEPT !.pc = "done", !.result = "Ok"]
    ELSE new_fails(p, "Err", "section6")

\* before new returns Ok there is no session
InitNew ==
    /\ overflow_checks \in BOOLEAN
    /\ section3 = None
    /\ section5 = None
    /\ with_header \in BOOLEAN
    /\ input = input_of([section_bytes |-> None, section_number |-> None], 0)
    /\ boundary = [k \in Runs |-> Boundary_default]
    /\ conv = [k \in Runs |-> conv_idle]
    /\ file \in Files
    /\ parse = parse_begin
    /\ call = no_call
    /\ ret = no_call

new_unchanged == UNCHANGED <<overflow_checks, with_header, input, boundary,
                            conv, file, call, ret>>

NewSection0 ==
    /\ parse.pc = "section0"
    /\ parse' = new_section0(new_reads(parse, "section0"), file)
    /\ UNCHANGED <<section3, section5>>
    /\ new_unchanged

NewSection1 ==
    /\ parse.pc = "section1"
    /\ parse' = new_section1(new_reads(parse, "section1"), file)
    /\ UNCHANGED <<section3, section5>>
    /\ new_unchanged

NewSection3 ==
    /\ parse.pc = "section3"
    /\ parse' = new_section3(new_reads(parse, "section3"), file)
    /\ UNCHANGED <<section3, section5>>
    /\ new_unchanged

NewSection4 ==
    /\ parse.pc = "section4"
    /\ parse' = new_section4(new_reads(parse, "section4"), file)
    /\ UNCHANGED <<section3, section5>>
    /\ new_unchanged

NewSection5 ==
    /\ parse.pc = "section5"
    /\ parse' = new_section5(new_reads(parse, "section5"), file)
    /\ UNCHANGED <<section3, section5>>
    /\ new_unchanged

NewCompare ==
    /\ parse.pc = "compare"
    /\ parse' = new_compare(parse)
    /\ UNCHANGED <<section3, section5>>
    /\ new_unchanged

\* with Ok(Self { .. }) the session holds the sections read
NewSection6 ==
    /\ parse.pc = "section6"
    /\ parse' = new_section6(new_reads(parse, "section6"), file)
    /\ section3' = IF parse'.result = "Ok" THEN parse.section3[1] ELSE section3
    /\ section5' = IF parse'.result = "Ok" THEN parse.section5[1] ELSE section5
    /\ new_unchanged

NextNew ==
    \/ NewSection0
    \/ NewSection1
    \/ NewSection3
    \/ NewSection4
    \/ NewSection5
    \/ NewCompare
    \/ NewSection6

SpecNew == InitNew /\ [][NextNew]_vars

\* the sections new has entered
sections_read == {parse.reads[n] : n \in 1..Len(parse.reads)}

----------------------------------------------------------------------------
(* Claims about the end of section 7 and the sessions new returns *)

\* the end marker "7777"
end_marker == <<ASCII_7, ASCII_7, ASCII_7, ASCII_7>>

\* C11: a conversion returns Ok only if it has consumed exactly
\* section_length - 5 codewords of section 7 and the 4 bytes after them are
\* "7777"; with other bytes, or fewer than 4, after the codewords the
\* conversion that reads them returns an error
C11_OkOnlyAfterEndMarker ==
    \A k \in Runs :
        /\ conv[k].result = "Ok" =>
              /\ input.tail = end_marker
              /\ Len(consumed(k)) = input.section_bytes[1] - 5
        /\ conv[k].pc = "done" /\ flushed_all(conv[k]) /\ conv[k].error # "points"
              /\ input.tail # end_marker
           => conv[k].result = "Err"

----------------------------------------------------------------------------
(* Grib2Csv::new, field by field *)

\* lib.rs 14-44; the fixed fields keep the values of the source, they are
\* only compared
DOCUMENT_DOMAIN == 0
GRIB_VERSION == 2
GRIB_MASTER_TABLE_VERSION == 2
GRIB_LOCAL_TABLE_VERSION == 1
CREATION_STATUS == 0
DOCUMENT_KIND == 0
GRID_SYSTEM_DEFINITION == 0
GRID_SYSTEM_DEFINITION_TEMPLATE == 0
EARTH_FIGURE == 4
NUMBER_OF_POINT_AT_VERTICAL == 2560
NUMBER_OF_POINT_AT_HORIZONTAL == 3360
CREATION_RANGE_ANGLE == 0
SCANNING_MODE == 0
DOCUMENT_EXPRESSION_TEMPLATE == 200
DATA_VALUE_FACTOR == 1

\* a field the reader compares with one expected value; says_expected: the
\* error message of a mismatch carries the expected value ("a .. is not
\* {CONSTANT}"; "section number is miss match in section N" and "a creation
\* status is test product" carry no value)
fixed(name, expected, says_expected) ==
    [name |-> name, kind |-> "fixed", expected |-> Some(expected),
     says_expected |-> says_expected]
\* a field the reader returns or uses without comparing it
free(name) ==
    [name |-> name, kind |-> "free", expected |-> None, says_expected |-> FALSE]

\* the fields each reader reads, in the order it reads them (the bytes it
\* skips with seek_relative are left out)
\* read_section0, lib.rs 389-434
Section0Fields ==
    <<fixed("grib", "GRIB", TRUE),
      fixed("document_domain", DOCUMENT_DOMAIN, TRUE),
      fixed("grib_version", GRIB_VERSION, TRUE)>>
\* read_section1, lib.rs 441-529; referenced_at must be a date and a time
Section1Fields ==
    <<fixed("section_number", 1, FALSE),
      fixed("grib_master_table_version", GRIB_MASTER_TABLE_VERSION, TRUE),
      fixed("grib_local_table_version", GRIB_LOCAL_TABLE_VERSION, TRUE),
      [name |-> "referenced_at", kind |-> "date", expected |-> Some("date"),
       says_expected |-> FALSE],
      fixed("creation_status", CREATION_STATUS, FALSE),
      fixed("document_kind", DOCUMENT_KIND, TRUE)>>
\* read_section3, lib.rs 553-728
Section3Fields ==
    <<fixed("section_number", 3, FALSE),
      fixed("grid_system_definition", GRID_SYSTEM_DEFINITION, TRUE),
      free("number_of_points"),
      fixed("grid_system_definition_template", GRID_SYSTEM_DEFINITION_TEMPLATE, TRUE),
      fixed("earth_figure", EARTH_FIGURE, TRUE),
      fixed("number_of_points_at_vertical", NUMBER_OF_POINT_AT_VERTICAL, TRUE),
      fixed("number_of_points_at_horizontal", NUMBER_OF_POINT_AT_HORIZONTAL, TRUE),
      fixed("creation_range_angle", CREATION_RANGE_ANGLE, TRUE),
      free("northernmost"),
      free("westernmost"),
      free("southernmost"),
      free("easternmost"),
      free("horizontal_increment"),
      free("vertical_increment"),
      fixed("scanning_mode", SCANNING_MODE, TRUE)>>
\* read_section4, lib.rs 731-745
Section4Fields ==
    <<free("length"), fixed("section_number", 4, FALSE)>>
\* read_section5, lib.rs 767-850, up to the level table
Section5Fields ==
    <<free("length"),
      fixed("section_number", 5, FALSE),
      free("number_of_points"),
      fixed("document_expression_template", DOCUMENT_EXPRESSION_TEMPLATE, TRUE),
      fixed("bits_per_data", BITS_PER_DATA, TRUE),
      free("max_level_at_file"),
      free("max_level"),
      fixed("data_value_factor", DATA_VALUE_FACTOR, TRUE)>>
\* read_section6, lib.rs 855-867
Section6Fields ==
    <<fixed("section_number", 6, FALSE)>>

\* the reader stops at field j of the table: the file ends there (read_u8,
\* read_u16, read_u32 return fewer bytes), or the value is not the expected one
stops_at(fields, content, j) ==
    \/ content.ends_at = j
    \/ fields[j].kind # "free" /\ content.values[j] # fields[j].expected[1]

\* the first field the reader stops at, 0 when it reads them all
first_stop(fields, content) ==
    IF \E j \in 1..Len(fields) : stops_at(fields, content, j)
    THEN CHOOSE j \in 1..Len(fields) :
            /\ stops_at(fields, content, j)
            /\ \A i \in 1..(j - 1) : ~stops_at(fields, content, i)
    ELSE 0

\* the anyhow! error of the reader that stopped at field: what its message
\* identifies and carries (no message carries the value that was read)
error_at(section, field, ended) ==
    [section |-> section, field |-> field.name,
     kind |-> IF ended THEN "read" ELSE IF field.kind = "date" THEN "date" ELSE "mismatch",
     expected |-> IF ~ended /\ field.says_expected THEN field.expected ELSE None,
     actual |-> None]

\* the fields a reader has got a value for: all n fields it went through, but
\* the last one when the file ended there
field_reads(section, fields, content, n) ==
    [j \in 1..(IF content.ends_at = n THEN n - 1 ELSE n) |->
        [section |-> section, name |-> fields[j].name, value |-> content.values[j]]]

\* a reader with its ? operators: the fields it has read and how it returned
fields_read(section, fields, content, stop) ==
    IF stop = 0
    THEN [ok |-> TRUE, reads |-> field_reads(section, fields, content, Len(fields)),
          error |-> None]
    ELSE [ok |-> FALSE, reads |-> field_reads(section, fields, content, stop),
          error |-> Some(error_at(section, fields[stop], content.ends_at = stop))]

read_fields(section, fields, content) ==
    fields_read(section, fields, content, first_stop(fields, content))

\* what the file holds where a reader reads: a value for each field of the
\* table, and the field at which the file ends (0: not in these fields;
\* one more than the fields: in what follows them)
Contents(values, n) ==
    {[values |-> v, ends_at |-> e] : v \in values, e \in 0..(n + 1)}

\* the expected value of a fixed field, and another one
Either(expected) == {expected, expected + 1}

Section0Contents ==
    Contents({<<g, d, v>> : g \in {"GRIB", "GRIX"}, d \in Either(DOCUMENT_DOMAIN),
                            v \in Either(GRIB_VERSION)}, 3)
Section1Contents ==
    Contents({<<n, m, l, r, c, k>> :
                n \in Either(1), m \in Either(GRIB_MASTER_TABLE_VERSION),
                l \in Either(GRIB_LOCAL_TABLE_VERSION), r \in {"date", "no date"},
                c \in Either(CREATION_STATUS), k \in Either(DOCUMENT_KIND)}, 6)

\* grids in the scaled u32, the proper one and ones with the edges exchanged
Grids ==
    {[northernmost |-> ns[1], southernmost |-> ns[2],
      westernmost |-> we[1], easternmost |-> we[2]] :
        ns \in {<<GridRows, 1>>, <<1, GridRows>>},
        we \in {<<1, GridColumns>>, <<GridColumns, 1>>}}

\* point counts: the one of the fixed grid shape, and another
PointCounts ==
    {NUMBER_OF_POINT_AT_VERTICAL * NUMBER_OF_POINT_AT_HORIZONTAL,
     NUMBER_OF_POINT_AT_VERTICAL * NUMBER_OF_POINT_AT_HORIZONTAL + 1}

Section3Fixed ==
    {<<n, d, t, e, v, h, a, m>> :
        n \in Either(3), d \in Either(GRID_SYSTEM_DEFINITION),
        t \in Either(GRID_SYSTEM_DEFINITION_TEMPLATE), e \in Either(EARTH_FIGURE),
        v \in Either(NUMBER_OF_POINT_AT_VERTICAL),
        h \in Either(NUMBER_OF_POINT_AT_HORIZONTAL),
        a \in Either(CREATION_RANGE_ANGLE), m \in Either(SCANNING_MODE)}
Section3Contents ==
    Contents({<<x[1], x[2], points, x[3], x[4], x[5], x[6], x[7],
                g.northernmost, g.westernmost, g.southernmost, g.easternmost,
                1, 1, x[8]>> :
                x \in Section3Fixed, points \in PointCounts, g \in Grids}, 15)

Section4Contents ==
    Contents({<<length, n>> : length \in Section4Lengths, n \in Either(4)}, 2)

\* the bytes of section 5 before its level table, lib.rs 786
Section5Head == 4 + 1 + 4 + 2 + 1 + 2 + 2 + 1
\* lengths of section 5: shorter than its head, and with a table of 0 to
\* MaxLevels levels
Section5Lengths ==
    {Section5Head - 1} \cup {Section5Head + 2 * n : n \in 0..MaxLevels}
\* the highest level of the file: up to what a codeword can hold, and beyond
MaxLevelsAtFile == {0, MaxLevelAtFile, 2^BITS_PER_DATA - 1, 2^BITS_PER_DATA}
Section5Fixed ==
    {<<n, t, b, f>> :
        n \in Either(5), t \in Either(DOCUMENT_EXPRESSION_TEMPLATE),
        b \in Either(BITS_PER_DATA), f \in Either(DATA_VALUE_FACTOR)}
Section5Contents ==
    Contents({<<length, x[1], points, x[2], x[3], maxv, max_level, x[4]>> :
                x \in Section5Fixed, length \in Section5Lengths,
                points \in PointCounts, maxv \in MaxLevelsAtFile,
                max_level \in {MaxLevelAtFile - 1, MaxLevelAtFile}}, 8)

Section6Contents == Contents({<<n>> : n \in Either(6)}, 1)

\* new has been called and has read nothing yet
new_begin ==
    [pc |-> "section0", reads |-> <<>>, section3 |-> None, section5 |-> None,
     result |-> "none", error |-> None]

\* a reader returns: new goes on to pc, or returns the reader's error
new_read(p, r, pc) ==
    IF r.ok THEN [p EXCEPT !.pc = pc, !.reads = @ \o r.reads]
    ELSE [p EXCEPT !.pc = "done", !.reads = @ \o r.reads,
                   !.result = "Err", !.error = r.error]

\* an arithmetic overflow in a build that checks it
new_panics(p, r) ==
    [p EXCEPT !.pc = "done", !.reads = @ \o r.reads, !.result = "Panic"]

\* a variant of read_section1 that does not compare the document kind
read_section1_any_kind(content) ==
    read_fields("section1",
                [Section1Fields EXCEPT ![6] = free("document_kind")], content)

\* read_section0, lib.rs 389-434
read_section0(content) == read_fields("section0", Section0Fields, content)
\* read_section1, lib.rs 441-467
read_section1(content) == read_fields("section1", Section1Fields, content)
\* read_section6, lib.rs 855-867
read_section6(content) == read_fields("section6", Section6Fields, content)

\* lib.rs 145-146: read_section0(&mut reader)?
new_read_section0(p, content) == new_read(p, read_section0(content), "section1")
\* lib.rs 147-148: read_section1(&mut reader)?
new_read_section1(p, content) == new_read(p, read_section1(content), "section3")

\* read_section3, lib.rs 553-614: the fields of Section3
Section3_of(v) ==
    [number_of_points |-> v[3],
     northernmost |-> v[9], westernmost |-> v[10],
     southernmost |-> v[11], easternmost |-> v[12],
     longitude_increment |-> v[13], latitude_increment |-> v[14]]

\* lib.rs 149-150: let section3 = read_section3(&mut reader)?
new_read_section3(p, content) ==
    [new_read(p, read_fields("section3", Section3Fields, content), "section4")
        EXCEPT !.section3 = IF first_stop(Section3Fields, content) = 0
                            THEN Some(Section3_of(content.values)) ELSE None]

\* lib.rs 151-152 and read_section4, lib.rs 731-745: length - (4 + 1)
\* overflows below 5; seeking beyond the end of the file is no error
read_section4_skip(p, r, length) ==
    IF r.ok /\ overflow_checks /\ Ovf(length - (4 + 1), U32) THEN new_panics(p, r)
    ELSE new_read(p, r, "section5")
new_read_section4(p, content) ==
    read_section4_skip(p, read_fields("section4", Section4Fields, content),
                       content.values[1])

\* lib.rs 786-787: the number of levels of the table
number_of_levels(length) == (Wrap(length - Section5Head, U32) % U16) \div 2

\* read_section5, lib.rs 796-802: the fields of Section5
Section5_of(v) ==
    [number_of_points |-> v[3],
     bits_per_data |-> v[5],
     max_level_at_file |-> v[6],
     max_level |-> v[7],
     level_values |-> [i \in 1..number_of_levels(v[1]) |-> i + 4]]

\* read_section5, lib.rs 786-794: the level table; the file may end in it
read_section5_levels(p, r, content) ==
    IF ~r.ok THEN new_read(p, r, "compare")
    ELSE IF overflow_checks /\ Ovf(content.values[1] - Section5Head, U32)
    THEN new_panics(p, r)
    ELSE IF content.ends_at = Len(Section5Fields) + 1
            /\ number_of_levels(content.values[1]) > 0
    THEN new_read(p, [ok |-> FALSE, reads |-> r.reads,
                      error |-> Some([section |-> "section5", field |-> "level_value",
                                      kind |-> "read", expected |-> None,
                                      actual |-> None])], "compare")
    ELSE [new_read(p, r, "compare") EXCEPT
            !.section5 = Some(Section5_of(content.values))]

\* lib.rs 153-154: let section5 = read_section5(&mut reader)?
new_read_section5(p, content) ==
    read_section5_levels(p, read_fields("section5", Section5Fields, content), content)

\* lib.rs 155-161: the point counts of sections 3 and 5; the message carries
\* both
new_compare_points(p) ==
    IF p.section3[1].number_of_points # p.section5[1].number_of_points
    THEN [p EXCEPT !.pc = "done", !.result = "Err",
            !.error = Some([section |-> "new", field |-> "number_of_points",
                            kind |-> "mismatch",
                            expected |-> Some(p.section3[1].number_of_points),
                            actual |-> Some(p.section5[1].number_of_points)])]
    ELSE [p EXCEPT !.pc = "section6"]

\* lib.rs 162-170: read_section6(&mut reader)?, then Ok(Self { .. })
new_read_section6(p, content) ==
    [new_read(p, read_section6(content), "done") EXCEPT
        !.result = IF first_stop(Section6Fields, content) = 0 THEN "Ok" ELSE "Err"]

\* before new returns Ok there is no session; the file shows its fields as
\* the readers read them
InitParse ==
    /\ overflow_checks \in BOOLEAN
    /\ section3 = None
    /\ section5 = None
    /\ with_header \in BOOLEAN
    /\ input = input_of([section_bytes |-> None, section_number |-> None], 0)
    /\ boundary = [k \in Runs |-> Boundary_default]
    /\ conv = [k \in Runs |-> conv_idle]
    /\ file = no_call
    /\ parse = new_begin
    /\ call = no_call
    /\ ret = no_call

parse_unchanged == UNCHANGED <<overflow_checks, section3, section5, with_header,
                              input, boundary, conv, file, call, ret>>

ParseSection0 ==
    /\ parse.pc = "section0"
    /\ \E content \in Section0Contents : parse' = new_read_section0(parse, content)
    /\ parse_unchanged

ParseSection1 ==
    /\ parse.pc = "section1"
    /\ \E content \in Section1Contents : parse' = new_read_section1(parse, content)
    /\ parse_unchanged

ParseSection3 ==
    /\ parse.pc = "section3"
    /\ \E content \in Section3Contents : parse' = new_read_section3(parse, content)
    /\ parse_unchanged

ParseSection4 ==
    /\ parse.pc = "section4"
    /\ \E content \in Section4Contents : parse' = new_read_section4(parse, content)
    /\ parse_unchanged

ParseSection5 ==
    /\ parse.pc = "section5"
    /\ \E content \in Section5Contents : parse' = new_read_section5(parse, content)
    /\ parse_unchanged

ParseCompare ==
    /\ parse.pc = "compare"
    /\ parse' = new_compare_points(parse)
    /\ parse_unchanged

\* with Ok(Self { .. }) the session holds the sections read
ParseSection6 ==
    /\ parse.pc = "section6"
    /\ \E content \in Section6Contents : parse' = new_read_section6(parse, content)
    /\ section3' = IF parse'.result = "Ok" THEN parse.section3[1] ELSE section3
    /\ section5' = IF parse'.result = "Ok" THEN parse.section5[1] ELSE section5
    /\ UNCHANGED <<overflow_checks, with_header, input, boundary, conv, file,
                   call, ret>>

NextParse ==
    \/ ParseSection0
    \/ ParseSection1
    \/ ParseSection3
    \/ ParseSection4
    \/ ParseSection5
    \/ ParseCompare
    \/ ParseSection6

SpecParse == InitParse /\ [][NextParse]_vars

----------------------------------------------------------------------------
(* Claims on Grib2Csv::new, field by field *)

\* the table of the fields of a section
FieldsOf(section) ==
    CASE section = "section0" -> Section0Fields
      [] section = "section1" -> Section1Fields
      [] section = "section3" -> Section3Fields
      [] section = "section4" -> Section4Fields
      [] section = "section5" -> Section5Fields
      [] section = "section6" -> Section6Fields

Sections == {"section0", "section1", "section3", "section4", "section5", "section6"}

\* the magic, the fixed-constant fields and the section numbers: the places
\* they have in the tables
FixedOf(section, fields) ==
    {<<section, j>> : j \in {i \in 1..Len(fields) : fields[i].kind = "fixed"}}
FixedFields == UNION {FixedOf(section, FieldsOf(section)) : section \in Sections}

\* the field at a place of the tables
field_at(x) == FieldsOf(x[1])[x[2]]

\* the n-th field new has read is the field at x
reads_field(n, x) ==
    parse.reads[n].section = x[1] /\ parse.reads[n].name = field_at(x).name

\* the n-th field new has read holds the expected value of the field at x
reads_expected(n, x) ==
    parse.reads[n].value = field_at(x).expected[1]

\* C12: new returns a session only if the magic is "GRIB", every
\* fixed-constant field equals its constant and every section number (1, 3,
\* 4, 5, 6) is the expected one; a field that differs is the last one read,
\* and new has returned an error
C12_SessionOnlyIfFixedFieldsMatch ==
    /\ parse.result = "Ok" =>
          \A x \in FixedFields :
              \E n \in 1..Len(parse.reads) :
                  reads_field(n, x) /\ reads_expected(n, x)
    /\ \A x \in FixedFields :
          \A n \in 1..Len(parse.reads) :
              reads_field(n, x) /\ ~reads_expected(n, x) =>
                  /\ n = Len(parse.reads)
                  /\ parse.pc = "done" /\ parse.result = "Err"
                  /\ section3 = None /\ section5 = None

\* new has read every field and returned a session
C12_Witness ==
    /\ parse.result = "Ok"
    /\ section3 # None /\ section5 # None
    /\ \A x \in FixedFields : \E n \in 1..Len(parse.reads) : reads_field(n, x)

----------------------------------------------------------------------------
(* move_lattice_for_missing_values on the grid of its tests *)

\* the coordinates are in units of 10^-6 degree, lib.rs 275
Degree == 1000000
\* integers wide enough for the coordinates of the tests, in place of u32
\* and u64
WideU32 == 2^28
WideU64 == 2^30
\* the highest count of the calls
ExampleCount == 50
\* calls on the grid from 130 to 150 degrees with increments of 1 degree, as
\* in the tests of lib.rs 1109-1184, from every column of the row of 40 degrees
ExampleCalls ==
    {[longitude |-> (130 + c) * Degree, latitude |-> 40 * Degree, count |-> n,
      longitude_increment |-> Degree, latitude_increment |-> Degree,
      westernmost |-> 130 * Degree, easternmost |-> 150 * Degree] :
        c \in 0..20, n \in 0..ExampleCount}

InitExample ==
    /\ overflow_checks \in BOOLEAN
    /\ no_session
    /\ call \in ExampleCalls
    /\ ret = no_call

ExampleReturns ==
    returns(move_lattice_in(WideU32, WideU64,
                call.longitude, call.latitude, call.count,
                call.longitude_increment, call.latitude_increment,
                call.westernmost, call.easternmost))

SpecExample == InitExample /\ [][ExampleReturns]_vars

\* the call from (longitude, latitude) degrees with count has returned the
\* cursor (lon, lat) degrees
example(longitude, latitude, count, lon, lat) ==
    call.longitude = longitude * Degree /\ call.latitude = latitude * Degree
    /\ call.count = count /\ ret # no_call
    => /\ ~ret[1].panic
       /\ ret[1].longitude = lon * Degree
       /\ ret[1].latitude = lat * Degree

C14_SessionGeometry ==
    parse.result = "Ok" =>
        /\ section3.westernmost < section3.easternmost
        /\ section3.southernmost < section3.northernmost
        /\ section3.number_of_points
              = NUMBER_OF_POINT_AT_VERTICAL * NUMBER_OF_POINT_AT_HORIZONTAL

\* C15: every session new returns has max_level_at_file <= max_level; a
\* section 5 that breaks the inequality is not accepted
C15_MaxLevelAtFileWithinMaxLevel ==
    parse.result = "Ok" => section5.max_level_at_file <= section5.max_level

\* the last field new has read
last_read == parse.reads[Len(parse.reads)]

\* C16: when new fails because a fixed-constant field or a section number
\* differs from its expected value, the error identifies the field and
\* carries the expected value and the value that was read
C16_MismatchErrorCarriesBothValues ==
    \A x \in FixedFields :
        /\ parse.result = "Err" /\ parse.reads # <<>>
        /\ reads_field(Len(parse.reads), x)
        /\ ~reads_expected(Len(parse.reads), x)
        => /\ parse.error # None
           /\ parse.error[1].section = x[1]
           /\ parse.error[1].field = field_at(x).name
           /\ parse.error[1].expected = field_at(x).expected
           /\ parse.error[1].actual = Some(last_read.value)

\* C19: for every session new returns, lngu = 2^bits_per_data - 1 -
\* max_level_at_file of lib.rs 209 does not underflow in u16 and is at least
\* 1: max_level_at_file < 2^bits_per_data - 1
C19_LnguAtLeastOne ==
    parse.result = "Ok" =>
        /\ ~Ovf(Wrap(2 ^ section5.bits_per_data, U16) - 1 - section5.max_level_at_file, U16)
        /\ Wrap(2 ^ section5.bits_per_data, U16) - 1 - section5.max_level_at_file >= 1
        /\ section5.max_level_at_file < 2 ^ BITS_PER_DATA - 1

----------------------------------------------------------------------------
(* Claims on the cursor, the levels and the counts of convert *)

\* the places of convert where the cursor is set: from the loop on
cursor_set(c) == c.pc \in {"loop", "flush", "check", "section8"}

\* C17: at the start of the loop of convert and after every decoded run,
\* westernmost <= longitude <= easternmost and longitude - westernmost is a
\* whole multiple of longitude_increment (the width of the grid being one)
C17_CursorInRange ==
    \A k \in Runs :
        cursor_set(conv[k]) =>
            /\ section3.westernmost <= conv[k].longitude
            /\ conv[k].longitude <= section3.easternmost
            /\ (conv[k].longitude - section3.westernmost)
                  % section3.longitude_increment = 0

\* C18: each level above 0 that convert resolves is at most the length of
\* level_values, so that level_values[level - 1] exists
C18_LevelWithinTable ==
    \A k \in Runs : \A n \in 1..Len(conv[k].decoded) :
        0 < conv[k].decoded[n][2] =>
            conv[k].decoded[n][2] <= Len(section5.level_values)

\* the powers, the terms and the count of a set, as numbers, are values of u32
SetWithinU32(set, maxv, lngu) ==
    /\ \A i \in 0..(Len(set) - 2) :
          /\ lngu ^ i < U32
          /\ (lngu ^ i) * (set[i + 2] - (maxv + 1)) < U32
    /\ RunCount(set, maxv, lngu) < U32

\* the sum of the counts, as numbers, of the first n sets
RECURSIVE TotalCount(_, _, _, _)
TotalCount(sets, maxv, lngu, n) ==
    IF n = 0 THEN 0
    ELSE TotalCount(sets, maxv, lngu, n - 1) + RunCount(sets[n], maxv, lngu)

\* C20: for every set that convert hands to expand_run_length with a level
\* in front, lngu^i * digit, their sum and the count are values of u32, and
\* so is the running total number_of_read of the counts
C20_CountsWithinU32 ==
    \A k \in Runs :
        (\A n \in 1..Len(conv[k].passed) :
            conv[k].passed[n][1] <= section5.max_level_at_file)
        => /\ \A n \in 1..Len(conv[k].passed) :
                 SetWithinU32(conv[k].passed[n], section5.max_level_at_file,
                              conv[k].lngu)
           /\ TotalCount(conv[k].passed, section5.max_level_at_file, conv[k].lngu,
                         Len(conv[k].passed)) < U32

----------------------------------------------------------------------------
(* Grib2Csv::convert called again on the same session *)

\* the calls of convert on one session
MaxCalls == 3
\* the codewords the file holds after the first section 7, at most
MaxLenLater == 3

\* the heads a later call may read: none, an empty section 7, one of
\* MaxLenLater codewords, and heads that end or differ at the section number
LaterHeads ==
    {head \in Heads : \/ head.section_bytes = None
                      \/ head.section_bytes[1] \in {4 + 1, 4 + 1 + MaxLenLater}}

\* a conversion that has not been called yet
conv_later == [conv_idle EXCEPT !.pc = "later"]

\* the conversion that returned last
previous == IF conv[2].pc = "later" THEN conv[1] ELSE conv[2]

\* what is left of a conversion that has returned: its result (its locals
\* are dropped)
returned(c) == finish(conv_idle, c.result, c.error)

\* the calls of convert so far
calls == IF call = no_call THEN 1 ELSE call.calls

\* the first conversion runs alone; the later ones start where it left the
\* reader of the session
InitAgain ==
    /\ overflow_checks \in BOOLEAN
    /\ section3 \in Section3s
    /\ section5 \in {s5 \in Section5s(section3) : Len(s5.level_values) = MaxLevels}
    /\ with_header \in BOOLEAN
    /\ \E head \in Heads : input = input_of(head, MaxLen)
    /\ boundary = [k \in Runs |-> Boundary_default]
    /\ conv = [k \in Runs |-> IF k = 1 THEN conv_idle ELSE conv_later]
    /\ file = no_call
    /\ parse = no_call
    /\ call = no_call
    /\ ret = no_call

\* a variant of the later call that seeks back to the head of section 7 first
ConvertAgain_rewound ==
    /\ previous.pc = "done" /\ previous.result \in {"Ok", "Err"}
    /\ calls < MaxCalls
    /\ \E at_end \in (IF input.ended THEN {TRUE} ELSE BOOLEAN) :
          /\ input' = input_over([section_bytes |-> input.section_bytes,
                                  section_number |-> input.section_number],
                                 MaxLen, Codewords)
          /\ conv' = [k \in Runs |-> IF k = 1 THEN returned(previous)
                                      ELSE convert_begin(conv_idle, input')]
          /\ call' = [calls |-> calls + 1,
                      ok_at_end |-> \/ previous.result = "Ok" /\ at_end
                                    \/ call # no_call /\ call.ok_at_end]
    /\ UNCHANGED <<overflow_checks, section3, section5, with_header, boundary,
                   file, parse, ret>>

\* lib.rs 182-204, called after a conversion has returned: self.reader is
\* where that conversion left it (no seek in convert). at_end: the file ends
\* there, and read_u32 gets no byte; otherwise the next bytes are read as the
\* head of a section 7
ConvertAgain ==
    /\ previous.pc = "done" /\ previous.result \in {"Ok", "Err"}
    /\ calls < MaxCalls
    /\ \E at_end \in (IF input.ended THEN {TRUE} ELSE BOOLEAN) :
       \E head \in (IF at_end THEN {[section_bytes |-> None, section_number |-> None]}
                    ELSE LaterHeads) :
          /\ input' = [input_of(head, MaxLenLater) EXCEPT !.ended = at_end]
          /\ conv' = [k \in Runs |-> IF k = 1 THEN returned(previous)
                                      ELSE convert_begin(conv_idle, input')]
          /\ call' = [calls |-> calls + 1,
                      ok_at_end |-> \/ previous.result = "Ok" /\ at_end
                                    \/ call # no_call /\ call.ok_at_end]
    /\ UNCHANGED <<overflow_checks, section3, section5, with_header, boundary,
                   file, parse, ret>>

NextAgain ==
    \/ Next
    \/ ConvertAgain

SpecAgain == InitAgain /\ [][NextAgain]_vars

\* C21: after a convert has returned Ok on a session whose file ends at the
\* end marker, every later convert on the session returns an error and
\* writes no data row: the reader is not set back to the start of section 7
C21_LaterConvertIsError ==
    call # no_call /\ call.ok_at_end =>
        /\ conv[2].pc = "done"
        /\ conv[2].result = "Err"
        /\ conv[2].error = "read_u32"
        /\ conv[2].writer.rows = <<>>

\* a conversion has returned Ok, the file ended at its end marker, and two
\* later calls of convert have each returned an error
C21_Witness ==
    /\ call # no_call /\ call.ok_at_end /\ call.calls >= 3
    /\ conv[1].result = "Err" /\ conv[1].error = "read_u32"
    /\ conv[2].result = "Err" /\ conv[2].error = "read_u32"

====
